---- MODULE Spec2Model ----
(***************************************************************************)
(* Model of src/services/apiService.ts: the APIService facade (setConfig,  *)
(* checkATSFormat, adaptCVToJob), its provider transport (callAPI,         *)
(* callOpenAI, callClaude) and its response normaliser (parseATSResponse,  *)
(* parseAdaptationResponse, generateDefaultLaTeX).                         *)
(* The relay server (server index.ts) is modelled next to it: its two      *)
(* proxy routes and what they answer.                                      *)
(* The App component (App.tsx) is modelled as its useState values and one  *)
(* action per event handler, each split at its await.                      *)
(*                                                                         *)
(* Text is a sequence of symbols.  A symbol is one character ("{", "}",    *)
(* a quote, a backslash, a line feed, ...) or one run of letters or digits *)
(* that the code never looks inside ("score", "87", "Sure!").              *)
(***************************************************************************)
EXTENDS Integers, Sequences, FiniteSets, TLC

\* ------------------------------------------------------------------------
\* Bounds of the model
\* ------------------------------------------------------------------------
MaxCalls == 2        \* facade calls that may be in flight together
MaxNoise == 3        \* length of the unstructured replies over NoiseSyms

\* ------------------------------------------------------------------------
\* Symbols
\* ------------------------------------------------------------------------
Q  == "\""           \* the double quote
BS == "\\"           \* the backslash
NL == "\n"           \* the line feed
SP == " "            \* the blank

EmptyText == << >>

RECURSIVE Concat(_)
\* the concatenation of a sequence of texts
Concat(ts) ==
    IF ts = << >> THEN << >> ELSE Head(ts) \o Concat(Tail(ts))

\* ------------------------------------------------------------------------
\* JavaScript values that a decoded reply can hold.  Every value is a record
\* of the same shape; t is the type tag and the field of that type carries
\* the value.
\* ------------------------------------------------------------------------
JAbsent   == [t |-> "undefined", b |-> FALSE, n |-> 0, s |-> << >>, l |-> << >>]
JNull     == [t |-> "null",      b |-> FALSE, n |-> 0, s |-> << >>, l |-> << >>]
JBool(x)  == [t |-> "boolean",   b |-> x,     n |-> 0, s |-> << >>, l |-> << >>]
JNum(x)   == [t |-> "number",    b |-> FALSE, n |-> x, s |-> << >>, l |-> << >>]
JStr(x)   == [t |-> "string",    b |-> FALSE, n |-> 0, s |-> x,     l |-> << >>]
JList(x)  == [t |-> "array",     b |-> FALSE, n |-> 0, s |-> << >>, l |-> x]

\* x ?? d  (nullish coalescing, apiService.ts 185-188)
Nullish(v) == v.t \in {"undefined", "null"}
Coalesce(v, d) == IF Nullish(v) THEN d ELSE v

\* JavaScript truthiness: undefined, null, false, 0 and "" are falsy, every
\* array (the empty one too) is truthy.   x || d  (apiService.ts 211-214)
Truthy(v) ==
    CASE v.t = "undefined" -> FALSE
      [] v.t = "null"      -> FALSE
      [] v.t = "boolean"   -> v.b
      [] v.t = "number"    -> v.n # 0
      [] v.t = "string"    -> v.s # << >>
      [] OTHER             -> TRUE
OrElse(v, d) == IF Truthy(v) THEN v ELSE d

\* ------------------------------------------------------------------------
\* JSON.parse on the matched substring (apiService.ts 183, 209)
\* ------------------------------------------------------------------------
ATSFields   == {"isATSFormat", "score", "issues", "suggestions"}
AdaptFields == {"adaptedCV", "latexCode", "changes", "highlightedSkills"}
FieldNames  == ATSFields \cup AdaptFields

\* number literals of the model and their values
NumLits == {"-5", "0", "5", "87", "100", "150"}
NumVal(lit) ==
    CASE lit = "-5"  -> 0 - 5
      [] lit = "0"   -> 0
      [] lit = "5"   -> 5
      [] lit = "87"  -> 87
      [] lit = "100" -> 100
      [] OTHER       -> 150

NumLit(n) == CHOOSE lit \in NumLits : NumVal(lit) = n

Fail == [ok |-> FALSE, pos |-> 0, val |-> JAbsent]
Ok(p, v) == [ok |-> TRUE, pos |-> p, val |-> v]

RECURSIVE SkipWs(_, _)
\* the first position at or after i that holds no JSON whitespace
SkipWs(t, i) ==
    IF i <= Len(t) /\ t[i] \in {SP, NL} THEN SkipWs(t, i + 1) ELSE i

RECURSIVE StringBody(_, _, _)
\* the characters of a JSON string whose opening quote precedes position i
StringBody(t, i, acc) ==
    IF i > Len(t) THEN Fail
    ELSE IF t[i] = Q THEN Ok(i + 1, JStr(acc))
    ELSE IF t[i] = NL THEN Fail                 \* raw control character
    ELSE IF t[i] = BS THEN
        IF i + 1 > Len(t) THEN Fail
        ELSE IF t[i + 1] \in {Q, BS} THEN StringBody(t, i + 2, Append(acc, t[i + 1]))
        ELSE IF t[i + 1] = "n" THEN StringBody(t, i + 2, Append(acc, NL))
        ELSE Fail
    ELSE StringBody(t, i + 1, Append(acc, t[i]))

ParseString(t, i) ==
    IF i <= Len(t) /\ t[i] = Q THEN StringBody(t, i + 1, << >>) ELSE Fail

RECURSIVE ListItems(_, _, _)
\* after an element: the end of the array or a comma and the next element
ListNext(t, j, acc) ==
    IF j > Len(t) THEN Fail
    ELSE IF t[j] = "]" THEN Ok(j + 1, JList(acc))
    ELSE IF t[j] = "," THEN ListItems(t, j + 1, acc)
    ELSE Fail

\* the element e just read is added to acc
ListItem(t, acc, e) ==
    IF ~e.ok THEN Fail
    ELSE ListNext(t, SkipWs(t, e.pos), Append(acc, e.val.s))

\* the elements of a JSON array of strings, position i at an element
ListItems(t, i, acc) == ListItem(t, acc, ParseString(t, SkipWs(t, i)))

ParseList(t, i) ==
    LET j == SkipWs(t, i + 1) IN
    IF j <= Len(t) /\ t[j] = "]" THEN Ok(j + 1, JList(<< >>))
    ELSE ListItems(t, j, << >>)

ParseValue(t, i) ==
    IF i > Len(t) THEN Fail
    ELSE IF t[i] = Q THEN ParseString(t, i)
    ELSE IF t[i] = "[" THEN ParseList(t, i)
    ELSE IF t[i] = "true" THEN Ok(i + 1, JBool(TRUE))
    ELSE IF t[i] = "false" THEN Ok(i + 1, JBool(FALSE))
    ELSE IF t[i] = "null" THEN Ok(i + 1, JNull)
    ELSE IF t[i] \in NumLits THEN Ok(i + 1, JNum(NumVal(t[i])))
    ELSE Fail

\* the decoded object: every field name the code reads, JAbsent when the
\* object has no such key
NoFields == [f \in FieldNames |-> JAbsent]

SetField(obj, key, v) ==
    IF Len(key) = 1 /\ key[1] \in FieldNames
    THEN [obj EXCEPT ![key[1]] = v] ELSE obj

FailObject == [ok |-> FALSE, pos |-> 0, val |-> NoFields]

RECURSIVE Members(_, _, _)
\* after a member: the end of the object or a comma and the next member
MemberNext(t, j, obj) ==
    IF j > Len(t) THEN FailObject
    ELSE IF t[j] = "}" THEN [ok |-> TRUE, pos |-> j + 1, val |-> obj]
    ELSE IF t[j] = "," THEN Members(t, j + 1, obj)
    ELSE FailObject

\* the value v just read is stored under key; a later duplicate key
\* overrides an earlier one
MemberValue(t, obj, key, v) ==
    IF ~v.ok THEN FailObject
    ELSE MemberNext(t, SkipWs(t, v.pos), SetField(obj, key, v.val))

\* the colon at position c and the value after it
MemberColon(t, obj, key, c) ==
    IF c > Len(t) \/ t[c] # ":" THEN FailObject
    ELSE MemberValue(t, obj, key, ParseValue(t, SkipWs(t, c + 1)))

\* the key k just read
MemberKey(t, obj, k) ==
    IF ~k.ok THEN FailObject
    ELSE MemberColon(t, obj, k.val.s, SkipWs(t, k.pos))

\* the members of a JSON object, position i at a key
Members(t, i, obj) == MemberKey(t, obj, ParseString(t, SkipWs(t, i)))

\* the object r must end the text
ObjectEnd(t, r) ==
    IF r.ok /\ SkipWs(t, r.pos) = Len(t) + 1
    THEN [ok |-> TRUE, val |-> r.val]
    ELSE [ok |-> FALSE, val |-> NoFields]

ObjectAt(t, j) ==
    IF j <= Len(t) /\ t[j] = "}"
    THEN [ok |-> TRUE, pos |-> j + 1, val |-> NoFields]
    ELSE Members(t, j, NoFields)

\* JSON.parse(t) for a text t that begins with "{": ok is FALSE where
\* JSON.parse throws a SyntaxError
JSONparse(t) == ObjectEnd(t, ObjectAt(t, SkipWs(t, 2)))

\* ------------------------------------------------------------------------
\* response.match(/\{[\s\S]*\}/)  (apiService.ts 181, 207): the substring
\* from the first "{" to the last "}" after it
\* ------------------------------------------------------------------------
Braces(t, ch) == {i \in 1..Len(t) : t[i] = ch}
Min(S) == CHOOSE x \in S : \A y \in S : x <= y
Max(S) == CHOOSE x \in S : \A y \in S : x >= y

\* a lazy match: the substring from the first "{" to the first "}" after it
jsonMatchLazy(t) ==
    LET opens == Braces(t, "{") IN
    IF opens = {} THEN [found |-> FALSE, s |-> << >>]
    ELSE LET first  == Min(opens)
             closes == {i \in Braces(t, "}") : i > first} IN
         IF closes = {} THEN [found |-> FALSE, s |-> << >>]
         ELSE [found |-> TRUE, s |-> SubSeq(t, first, Min(closes))]

jsonMatch(t) ==
    LET opens == Braces(t, "{") IN
    IF opens = {} THEN [found |-> FALSE, s |-> << >>]
    ELSE LET first  == Min(opens)
             closes == {i \in Braces(t, "}") : i > first} IN
         IF closes = {} THEN [found |-> FALSE, s |-> << >>]
         ELSE [found |-> TRUE, s |-> SubSeq(t, first, Max(closes))]

\* ------------------------------------------------------------------------
\* generateDefaultLaTeX  (apiService.ts 229-273)
\* ------------------------------------------------------------------------
RECURSIVE ReplaceAll(_, _, _)
\* text.replace(/ch/g, rep): one pass over text, every ch replaced by rep
ReplaceAll(text, ch, rep) ==
    IF text = << >> THEN << >>
    ELSE (IF Head(text) = ch THEN rep ELSE <<Head(text)>>)
         \o ReplaceAll(Tail(text), ch, rep)

\* the chain of ten replacements, each applied to the output of the one
\* before it  (apiService.ts 231-241)
escapedText(cvText) ==
    LET r1  == ReplaceAll(cvText, BS, <<BS, "textbackslash", "{", "}">>)
        r2  == ReplaceAll(r1, "{", <<BS, "{">>)
        r3  == ReplaceAll(r2, "}", <<BS, "}">>)
        r4  == ReplaceAll(r3, "#", <<BS, "#">>)
        r5  == ReplaceAll(r4, "$", <<BS, "$">>)
        r6  == ReplaceAll(r5, "%", <<BS, "%">>)
        r7  == ReplaceAll(r6, "&", <<BS, "&">>)
        r8  == ReplaceAll(r7, "^", <<BS, "textasciicircum", "{", "}">>)
        r9  == ReplaceAll(r8, "_", <<BS, "_">>)
        r10 == ReplaceAll(r9, "~", <<BS, "textasciitilde", "{", "}">>)
    IN  r10

RECURSIVE SplitAt(_, _, _)
\* text.split(sep) for a two-symbol separator: the pieces between the
\* occurrences of sep, cur being the piece under construction
SplitAt(text, sep, cur) ==
    IF text = << >> THEN <<cur>>
    ELSE IF Len(text) >= 2 /\ SubSeq(text, 1, 2) = sep
         THEN <<cur>> \o SplitAt(SubSeq(text, 3, Len(text)), sep, << >>)
         ELSE SplitAt(Tail(text), sep, Append(cur, Head(text)))

RECURSIVE Join(_, _)
\* pieces.join(sep)
Join(pieces, sep) ==
    IF pieces = << >> THEN << >>
    ELSE IF Len(pieces) = 1 THEN pieces[1]
    ELSE pieces[1] \o sep \o Join(Tail(pieces), sep)

Slice3(pieces) == SubSeq(pieces, 1, IF Len(pieces) < 3 THEN Len(pieces) ELSE 3)

\* escapedText.split('\\n').slice(0, 3).join('\\n\\par')  (apiService.ts
\* 261): inside ${...} the literal '\\n' is a backslash followed by the
\* letter n, and '\\n\\par' is \n\par
SummaryText(escaped) ==
    Join(Slice3(SplitAt(escaped, <<BS, "n">>, << >>)), <<BS, "n", BS, "par">>)

\* the fixed skeleton of the template literal (apiService.ts 243-272)
DocPreamble ==
    <<BS, "documentclass", "[", "11pt,a4paper,sans", "]", "{", "moderncv", "}", NL,
      BS, "moderncvstyle", "{", "classic", "}", NL,
      BS, "moderncvcolor", "{", "blue", "}", NL, NL,
      BS, "usepackage", "[", "utf8", "]", "{", "inputenc", "}", NL,
      BS, "usepackage", "[", "scale=0.75", "]", "{", "geometry", "}", NL,
      BS, "usepackage", "[", "T1", "]", "{", "fontenc", "}", NL, NL,
      "%", SP, "Personal Data", NL,
      BS, "name", "{", "Your", "}", "{", "Name", "}", NL,
      BS, "address", "{", "Your Address", "}", NL,
      BS, "phone", "[", "mobile", "]", "{", "+1", "~", "(234)", "~", "567", "~", "890", "}", NL,
      BS, "email", "{", "your.email@example.com", "}", NL, NL,
      BS, "begin", "{", "document", "}", NL,
      BS, "makecvtitle", NL, NL>>
DocSummaryHead == <<BS, "section", "{", "Professional Summary", "}", NL>>
DocExperienceHead == <<NL, NL, BS, "section", "{", "Experience", "}", NL>>
DocEnd == <<BS, "end", "{", "document", "}">>
DocTail ==
    <<NL, NL, BS, "section", "{", "Education", "}", NL,
      "%", SP, "Add your education here", NL, NL,
      BS, "section", "{", "Skills", "}", NL,
      "%", SP, "Add your skills here", NL, NL>> \o DocEnd

\* the template literal around the escaped text (apiService.ts 243-272)
Document(escaped) ==
    DocPreamble \o DocSummaryHead \o SummaryText(escaped)
    \o DocExperienceHead \o escaped \o DocTail

\* generateDefaultLaTeX(cvText) for a JavaScript value cvText: ok is FALSE
\* where cvText.replace is not a function (cvText is no string) and the call
\* throws a TypeError
generateDefaultLaTeX(cvText) ==
    IF cvText.t # "string" THEN [ok |-> FALSE, val |-> JAbsent]
    ELSE [ok |-> TRUE, val |-> JStr(Document(escapedText(cvText.s)))]

\* ------------------------------------------------------------------------
\* parseATSResponse  (apiService.ts 178-202)
\* ------------------------------------------------------------------------
FailedToParse == <<"Failed to parse API response">>
CheckFormat   == <<"Please check the API response format">>

\* the record of the catch block (apiService.ts 195-200)
ATSFallback ==
    [isATSFormat |-> JBool(FALSE),
     score       |-> JNum(0),
     issues      |-> JList(<<FailedToParse>>),
     suggestions |-> JList(<<CheckFormat>>)]

\* the record built from the decoded object (apiService.ts 184-189)
ATSFromParsed(parsed) ==
    [isATSFormat |-> Coalesce(parsed["isATSFormat"], JBool(FALSE)),
     score       |-> Coalesce(parsed["score"], JNum(0)),
     issues      |-> Coalesce(parsed["issues"], JList(<< >>)),
     suggestions |-> Coalesce(parsed["suggestions"], JList(<< >>))]

\* the first statements of both try blocks (apiService.ts 181-183,
\* 207-209): ok is FALSE where they throw, because response has no match
\* method (it is no string), because nothing matches, or because
\* JSON.parse throws
DecodeMatch(m) ==
    IF ~m.found THEN [ok |-> FALSE, val |-> NoFields] ELSE JSONparse(m.s)

\* a decoder that takes a reply without a match for the empty object
DecodeLenient(response) ==
    IF response.t # "string" THEN [ok |-> FALSE, val |-> NoFields]
    ELSE IF ~jsonMatch(response.s).found THEN [ok |-> TRUE, val |-> NoFields]
    ELSE DecodeMatch(jsonMatch(response.s))

Decode(response) ==
    IF response.t # "string" THEN [ok |-> FALSE, val |-> NoFields]
    ELSE DecodeMatch(jsonMatch(response.s))

\* the rest of the try block (apiService.ts 184-191) for the decoded reply
ATSTry(d) ==
    IF ~d.ok THEN [threw |-> TRUE, value |-> NoFields]
    ELSE [threw |-> FALSE, value |-> ATSFromParsed(d.val)]

\* a parser without its catch block
ATSNoCatch(r) == r

\* the catch block (apiService.ts 192-201) after the try block ended as r
ATSCatch(r) ==
    IF r.threw THEN [threw |-> FALSE, value |-> ATSFallback] ELSE r

\* threw says whether an error leaves parseATSResponse
parseATSResponse(response) == ATSCatch(ATSTry(Decode(response)))

\* ------------------------------------------------------------------------
\* parseAdaptationResponse  (apiService.ts 204-227)
\* The operators yield the returned record (value), whether an error is
\* thrown instead (threw), and the arguments of the calls of
\* generateDefaultLaTeX made on the way (renders).
\* ------------------------------------------------------------------------
\* a normaliser that renders the document anew whatever the payload holds
AdaptationRecordAlwaysRender(parsed, cv, gen) ==
    [threw   |-> ~gen.ok,
     value   |-> [adaptedCV         |-> cv,
                  latexCode         |-> gen.val,
                  changes           |-> OrElse(parsed["changes"], JList(<< >>)),
                  highlightedSkills |-> OrElse(parsed["highlightedSkills"], JList(<< >>))],
     renders |-> <<cv>>]

\* the record of the return statement (apiService.ts 210-215), cv being
\* parsed.adaptedCV || '' and gen the outcome of generateDefaultLaTeX(cv),
\* which is called, and can throw, only when parsed.latexCode is falsy
AdaptationRecord(parsed, cv, gen) ==
    [threw   |-> ~Truthy(parsed["latexCode"]) /\ ~gen.ok,
     value   |-> [adaptedCV         |-> cv,
                  latexCode         |-> IF Truthy(parsed["latexCode"])
                                        THEN parsed["latexCode"] ELSE gen.val,
                  changes           |-> OrElse(parsed["changes"], JList(<< >>)),
                  highlightedSkills |-> OrElse(parsed["highlightedSkills"], JList(<< >>))],
     renders |-> IF Truthy(parsed["latexCode"]) THEN << >> ELSE <<cv>>]

AdaptationFromParsed(parsed) ==
    AdaptationRecord(parsed, OrElse(parsed["adaptedCV"], JStr(<< >>)),
                     generateDefaultLaTeX(OrElse(parsed["adaptedCV"], JStr(<< >>))))

\* the rest of the try block (apiService.ts 210-217) for the decoded reply
AdaptationTry(d) ==
    IF ~d.ok THEN [threw |-> TRUE, value |-> NoFields, renders |-> << >>]
    ELSE AdaptationFromParsed(d.val)

\* a fallback record without a document
AdaptationFallbackNoDocument(renders, gen) ==
    [threw   |-> FALSE,
     value   |-> [adaptedCV         |-> JStr(<< >>),
                  latexCode         |-> JStr(<< >>),
                  changes           |-> JList(<<FailedToParse>>),
                  highlightedSkills |-> JList(<< >>)],
     renders |-> renders]

\* the record of the catch block (apiService.ts 220-225), gen being the
\* outcome of generateDefaultLaTeX('')
AdaptationFallback(renders, gen) ==
    [threw   |-> ~gen.ok,
     value   |-> [adaptedCV         |-> JStr(<< >>),
                  latexCode         |-> gen.val,
                  changes           |-> JList(<<FailedToParse>>),
                  highlightedSkills |-> JList(<< >>)],
     renders |-> Append(renders, JStr(<< >>))]

\* the catch block (apiService.ts 218-226) after the try block ended as r
AdaptationCatch(r) ==
    IF r.threw THEN AdaptationFallback(r.renders, generateDefaultLaTeX(JStr(<< >>)))
    ELSE r

parseAdaptationResponse(response) == AdaptationCatch(AdaptationTry(Decode(response)))

\* ------------------------------------------------------------------------
\* Provider replies.  The prompts ask for a JSON object with four named
\* fields (apiService.ts 47-53, 79-85); a reply is the JSON text of such an
\* object, with fields missing or ill-typed, possibly inside prose, or text
\* that is no JSON at all.
\* ------------------------------------------------------------------------
RECURSIVE EscapeJSON(_)
\* the characters of a string as they stand between the quotes of JSON text
EscapeJSON(s) ==
    IF s = << >> THEN << >>
    ELSE (CASE Head(s) = Q  -> <<BS, Q>>
            [] Head(s) = BS -> <<BS, BS>>
            [] Head(s) = NL -> <<BS, "n">>
            [] OTHER        -> <<Head(s)>>) \o EscapeJSON(Tail(s))

StringText(s) == <<Q>> \o EscapeJSON(s) \o <<Q>>

RECURSIVE ListText(_)
ListText(l) ==
    IF l = << >> THEN << >>
    ELSE IF Len(l) = 1 THEN StringText(l[1])
    ELSE StringText(l[1]) \o <<",", SP>> \o ListText(Tail(l))

ValueText(v) ==
    CASE v.t = "null"    -> <<"null">>
      [] v.t = "boolean" -> IF v.b THEN <<"true">> ELSE <<"false">>
      [] v.t = "number"  -> <<NumLit(v.n)>>
      [] v.t = "string"  -> StringText(v.s)
      [] OTHER           -> <<"[">> \o ListText(v.l) \o <<"]">>

RECURSIVE MembersText(_, _)
\* the members of the fields of order that payload carries
MembersText(order, payload) ==
    IF order = << >> THEN << >>
    ELSE LET k    == Head(order)
             rest == MembersText(Tail(order), payload) IN
         IF payload[k].t = "undefined" THEN rest
         ELSE <<Q, k, Q, ":", SP>> \o ValueText(payload[k])
              \o (IF rest = << >> THEN << >> ELSE <<",", SP>> \o rest)

ObjectText(order, payload) == <<"{">> \o MembersText(order, payload) \o <<"}">>

ATSOrder   == <<"isATSFormat", "score", "issues", "suggestions">>
AdaptOrder == <<"adaptedCV", "latexCode", "changes", "highlightedSkills">>

\* values a provider may put in each field: well-shaped ones first
BulletPoints == <<"Use bullet points">>
GoodFlags   == {JBool(TRUE), JBool(FALSE)}
GoodScores  == {JNum(0 - 5), JNum(0), JNum(87), JNum(100), JNum(150)}
GoodIssues  == {JList(<< >>), JList(<< <<"a">>, <<"b", "}">> >>)}
GoodSuggestions == {JList(<< >>), JList(<<BulletPoints>>)}
OddFlags    == {JAbsent, JNull, JNum(5)}
OddScores   == {JAbsent, JNull, JStr(<<"87">>)}
OddIssues   == {JAbsent, JNull, JStr(<<"x">>)}
OddSuggestions == {JAbsent, JNum(0)}

ATSPayload(f, sc, is, su) ==
    [NoFields EXCEPT !["isATSFormat"] = f, !["score"] = sc,
                     !["issues"] = is, !["suggestions"] = su]

\* the payloads that carry all four assessment fields with their types
FullATSPayloads ==
    {ATSPayload(f, sc, is, su) : f \in GoodFlags, sc \in GoodScores,
                                 is \in GoodIssues, su \in GoodSuggestions}
ATSPayloads ==
    {ATSPayload(f, sc, is, su) :
        f \in GoodFlags \cup OddFlags, sc \in GoodScores \cup OddScores,
        is \in GoodIssues \cup OddIssues, su \in GoodSuggestions \cup OddSuggestions}

SampleCV  == <<"Line1", NL, "50", "%", SP, "of", SP, "$", "100", NL, "C", "#", BS, "n", "{", "x", "}">>
SampleDoc == <<BS, "documentclass", "{", "article", "}", NL, "100", "%", NL, BS, "end", "{", "document", "}">>
GoodCVs     == {JStr(<< >>), JStr(SampleCV)}
GoodDocs    == {JStr(<< >>), JStr(SampleDoc), JStr(<<"x">>)}
GoodChanges == {JList(<< >>), JList(<< <<"a">> >>)}
GoodSkills  == {JList(<< >>), JList(<< <<"s">> >>)}
OddCVs      == {JAbsent, JNull, JNum(5), JNum(0), JList(<< >>)}
OddDocs     == {JAbsent, JNull, JNum(5), JList(<< >>)}
OddChanges  == {JAbsent, JStr(<<"x">>)}
OddSkills   == {JAbsent, JNull}

AdaptPayload(cv, doc, ch, sk) ==
    [NoFields EXCEPT !["adaptedCV"] = cv, !["latexCode"] = doc,
                     !["changes"] = ch, !["highlightedSkills"] = sk]

AdaptPayloads ==
    {AdaptPayload(cv, doc, ch, sk) :
        cv \in GoodCVs \cup OddCVs, doc \in GoodDocs \cup OddDocs,
        ch \in GoodChanges \cup OddChanges, sk \in GoodSkills \cup OddSkills}

\* prose around the object: none, brace-free, and with a stray brace
ProseBefore == {<< >>, <<"Sure!", SP>>, <<"{", SP>>}
ProseAfter  == {<< >>, <<SP, "ok">>, <<NL, "}">>}
BraceFree(t) == \A i \in 1..Len(t) : t[i] \notin {"{", "}"}

\* text that is no JSON: every text over NoiseSyms up to MaxNoise symbols
NoiseSyms == {"{", "}", "x", SP}
RECURSIVE TextsUpTo(_, _)
TextsUpTo(syms, n) ==
    IF n = 0 THEN {<< >>}
    ELSE LET shorter == TextsUpTo(syms, n - 1) IN
         shorter \cup {Append(t, c) : t \in shorter, c \in syms}

\* JSON text with one symbol lost
Damaged(t) == {SubSeq(t, 1, i - 1) \o SubSeq(t, i + 1, Len(t)) : i \in 1..Len(t)}
ScenarioPayload ==
    ATSPayload(JBool(TRUE), JNum(87), JList(<< <<"a">>, <<"b">> >>), JList(<<BulletPoints>>))

ReplyTexts ==
    {ObjectText(ATSOrder, p) : p \in ATSPayloads}
    \cup {ObjectText(AdaptOrder, p) : p \in AdaptPayloads}
    \cup {b \o ObjectText(ATSOrder, p) \o a :
            b \in ProseBefore, a \in ProseAfter, p \in FullATSPayloads}
    \cup Damaged(ObjectText(ATSOrder, ScenarioPayload))
    \cup TextsUpTo(NoiseSyms, MaxNoise)

\* what the transport can hand to the normaliser: a text, or no string at
\* all (response.data.choices[0].message.content and
\* response.data.content[0].text are returned unchecked, apiService.ts 136,
\* 172)
RawReplies == {JStr(t) : t \in ReplyTexts} \cup {JAbsent, JNull}

\* ------------------------------------------------------------------------
\* State
\* ------------------------------------------------------------------------
VARIABLES
    config,     \* APIService.config (apiService.ts 25)
    calls,      \* the facade calls: per call its position and outcome
    response,   \* the value under normalisation
    phase,      \* "raw" before the normaliser ran, then the parser that ran
    parsed,     \* what the normaliser returned
    relay,      \* the relay server's requests: per request its position,
                \* what it forwarded and what it answered
    app         \* the App component: its useState values, the file reads
                \* and the apiService requests it is waiting for

vars == <<config, calls, response, phase, parsed, relay, app>>

NoConfig == [provider |-> "none", apiKey |-> "", model |-> ""]

\* APIProviderConfig values (apiService.ts 4-8); model "" is the unset model
Configs ==
    {[provider |-> "openai", apiKey |-> "key-1", model |-> ""],
     [provider |-> "claude", apiKey |-> "key-2", model |-> "model-x"],
     [provider |-> "openai", apiKey |-> "key-2", model |-> "model-x"],
     [provider |-> "claude", apiKey |-> "key-1", model |-> ""]}

CallIds == 1..MaxCalls
CVTexts == {"cv text"}
JobDescriptions == {"job text"}

NoRequest ==
    [endpoint |-> "", authorization |-> << >>, xApiKey |-> "",
     anthropicVersion |-> "", model |-> "", prompt |-> << >>]
NoError  == [message |-> << >>]
NoResult == [none |-> TRUE]

\* what axios.post delivered to the call: nothing yet, a rejection, or a
\* 2xx response with its body  (apiService.ts 111, 150)
NoExchange == [kind |-> "none", path |-> "", leaf |-> JAbsent]
ExchangeFailed == [kind |-> "error", path |-> "", leaf |-> JAbsent]
Exchange2xx(body) == [kind |-> "2xx", path |-> body.path, leaf |-> body.leaf]

IdleCall ==
    [pc |-> "idle", op |-> "", request |-> NoRequest, sent |-> 0,
     received |-> NoExchange, error |-> NoError, result |-> NoResult]

\* new Error('API configuration not set')  (apiService.ts 33, 61)
ConfigError == [message |-> <<"API configuration not set">>]

\* the relay server (server index.ts): a response body is a JSON object of
\* which the relay looks at the error field only; error "" is no error field
MaxRelay == 2
RelayIds == 1..MaxRelay

NoData == [type |-> "", error |-> "", text |-> ""]
NoForward ==
    [endpoint |-> "", xApiKey |-> JAbsent, authorization |-> JAbsent,
     anthropicVersion |-> JAbsent, body |-> ""]
NoUpstream == [kind |-> "none", status |-> 0, data |-> NoData, message |-> ""]

\* a request of the relay: the route it came in on, its headers and body
\* (req.headers, req.body), the request forwarded upstream, what came back
\* from upstream, and the status and body answered (res.status, res.json)
IdleRelay ==
    [pc |-> "idle", route |-> "", xApiKey |-> JAbsent, authorization |-> JAbsent,
     anthropicVersion |-> JAbsent, body |-> "", forwarded |-> NoForward,
     upstreamSent |-> 0, upstream |-> NoUpstream, status |-> 0, reply |-> NoData]

\* the App component (App.tsx): "" is the empty string and, for error, null
MaxReads == 1        \* file reads that may be pending together
MaxRequests == 2     \* apiService requests the App may be waiting for together
RequestIds == 1..MaxRequests

\* the useState initial values (App.tsx 9-21); reads counts the FileReader
\* objects that have not fired onload yet, requests holds per pending
\* apiService promise the handler that awaits it
InitialApp ==
    [apiKey |-> "", cvText |-> "", jobDescription |-> "", viewMode |-> "upload",
     atsResult |-> FALSE, adaptationResult |-> FALSE, loading |-> FALSE,
     error |-> "", showConfig |-> TRUE, reads |-> 0,
     requests |-> [r \in RequestIds |-> "none"]]

\* ------------------------------------------------------------------------
\* Provider transport  (apiService.ts 91-176)
\* ------------------------------------------------------------------------
OpenAIEndpoint == "https://api.openai.com/v1/chat/completions"
ClaudeEndpoint == "https://api.anthropic.com/v1/messages"

\* the request callOpenAI posts (apiService.ts 108-134)
OpenAIRequest(cfg, prompt) ==
    [endpoint         |-> OpenAIEndpoint,
     authorization    |-> <<"Bearer ", cfg.apiKey>>,
     xApiKey          |-> "",
     anthropicVersion |-> "",
     model            |-> IF cfg.model # "" THEN cfg.model ELSE "gpt-4-turbo-preview",
     prompt           |-> prompt]

\* a callClaude that sends the bearer header as well
ClaudeRequestWithBearer(cfg, prompt) ==
    [endpoint         |-> ClaudeEndpoint,
     authorization    |-> <<"Bearer ", cfg.apiKey>>,
     xApiKey          |-> cfg.apiKey,
     anthropicVersion |-> "2023-06-01",
     model            |-> IF cfg.model # "" THEN cfg.model ELSE "claude-3-5-sonnet-20241022",
     prompt           |-> prompt]

\* the request callClaude posts (apiService.ts 147-170)
ClaudeRequest(cfg, prompt) ==
    [endpoint         |-> ClaudeEndpoint,
     authorization    |-> << >>,
     xApiKey          |-> cfg.apiKey,
     anthropicVersion |-> "2023-06-01",
     model            |-> IF cfg.model # "" THEN cfg.model ELSE "claude-3-5-sonnet-20241022",
     prompt           |-> prompt]

\* callAPI: the variant chosen by the configured provider (apiService.ts
\* 96-100)
callAPI(cfg, prompt) ==
    IF cfg.provider = "openai" THEN OpenAIRequest(cfg, prompt)
    ELSE ClaudeRequest(cfg, prompt)

\* a 2xx response body: how far the path to the reply text exists
\* (data.choices[0].message.content, data.content[0].text) and the value
\* at its end
ReplyLeaves ==
    {JStr(<<"Sure!", SP>> \o ObjectText(ATSOrder, ScenarioPayload)),
     JStr(ObjectText(AdaptOrder,
            AdaptPayload(JStr(SampleCV), JAbsent, JList(<< <<"a">> >>), JList(<< >>)))),
     JStr(<<"not json at all">>),
     JAbsent}
Bodies(endpoint) ==
    {[path |-> "ok", leaf |-> v] : v \in ReplyLeaves}
    \cup {[path |-> p, leaf |-> JAbsent] :
            p \in IF endpoint = OpenAIEndpoint
                  THEN {"missing", "empty", "nomessage"}
                  ELSE {"missing", "empty"}}

\* a failed exchange as axios reports it: apiMessage is
\* error.response.data.error.message ("" when there is none), message is
\* error.message
Failures ==
    {[apiMessage |-> "", message |-> "Network Error"],
     [apiMessage |-> "Incorrect API key", message |-> "Request failed with status code 401"]}

ErrorPrefix(endpoint) ==
    IF endpoint = OpenAIEndpoint THEN "OpenAI API error: " ELSE "Claude API error: "

\* the Error of the catch blocks (apiService.ts 138, 174)
ProviderError(endpoint, f) ==
    [message |-> <<ErrorPrefix(endpoint),
                   IF f.apiMessage # "" THEN f.apiMessage ELSE f.message>>]

\* the return statement of callOpenAI / callClaude (apiService.ts 136,
\* 172): reading through a missing level throws a TypeError, which the
\* catch block rethrows; a missing last level yields undefined
ExtractReply(endpoint, body) ==
    IF body.path = "ok" THEN [ok |-> TRUE, val |-> body.leaf, error |-> NoError]
    ELSE [ok |-> FALSE, val |-> JAbsent,
          error |-> ProviderError(endpoint,
                      [apiMessage |-> "", message |-> "Cannot read properties of undefined"])]

\* ------------------------------------------------------------------------
\* Facade  (apiService.ts 27-89)
\* ------------------------------------------------------------------------
Free(c) == calls[c].pc # "awaiting"

\* a facade call that posts its request before it looks at the configuration
StartCallRequestFirst(c, op, prompt) ==
    /\ Free(c)
    /\ calls' = [calls EXCEPT ![c] =
            [IdleCall EXCEPT !.pc = IF config = NoConfig THEN "rejected" ELSE "awaiting",
                             !.op = op, !.sent = 1,
                             !.error = IF config = NoConfig THEN ConfigError ELSE NoError,
                             !.request = IF config = NoConfig THEN NoRequest
                                         ELSE callAPI(config, prompt)]]
    /\ UNCHANGED <<config, response, phase, parsed, relay, app>>

\* a facade call up to its first suspension: the configuration check, the
\* prompt, and the request posted by callAPI
StartCall(c, op, prompt) ==
    /\ Free(c)
    /\ IF config = NoConfig
       THEN calls' = [calls EXCEPT ![c] =
                [IdleCall EXCEPT !.pc = "rejected", !.op = op, !.error = ConfigError]]
       ELSE calls' = [calls EXCEPT ![c] =
                [IdleCall EXCEPT !.pc = "awaiting", !.op = op, !.sent = 1,
                                 !.request = callAPI(config, prompt)]]
    /\ UNCHANGED <<config, response, phase, parsed, relay, app>>

\* a setConfig that reaches the requests in flight
SetConfigRebuildsRequests(cfg) ==
    /\ config' = cfg
    /\ calls' = [c \in CallIds |->
            IF calls[c].pc = "awaiting"
            THEN [calls[c] EXCEPT !.request = callAPI(cfg, calls[c].request.prompt)]
            ELSE calls[c]]
    /\ UNCHANGED <<response, phase, parsed, relay, app>>

\* setConfig  (apiService.ts 27-29)
SetConfig(cfg) ==
    /\ config' = cfg
    /\ UNCHANGED <<calls, response, phase, parsed, relay, app>>

\* checkATSFormat up to the await  (apiService.ts 31-55)
CheckATSFormat(c, cvText) ==
    StartCall(c, "checkATSFormat", <<"ats", cvText>>)

\* adaptCVToJob up to the await  (apiService.ts 59-87)
AdaptCVToJob(c, cvText, jobDescription) ==
    StartCall(c, "adaptCVToJob", <<"adapt", cvText, jobDescription>>)

\* a facade call whose parser has no catch block
NormaliseNoCatch(op, raw) ==
    IF op = "checkATSFormat" THEN ATSTry(Decode(raw))
    ELSE AdaptationTry(Decode(raw))

\* the parser the call hands the reply value to (apiService.ts 56, 88)
Normalise(op, raw) ==
    IF op = "checkATSFormat" THEN parseATSResponse(raw)
    ELSE parseAdaptationResponse(raw)

\* an error thrown by the normaliser itself
NormaliserError == [message |-> <<"TypeError">>]

\* the call after the parser ended as r
Returned(call, r) ==
    IF r.threw
    THEN [call EXCEPT !.pc = "rejected", !.request = NoRequest, !.error = NormaliserError]
    ELSE [call EXCEPT !.pc = "resolved", !.request = NoRequest, !.result = r.value]

\* the call after callOpenAI / callClaude ended as x
Settled(call, x) ==
    IF ~x.ok
    THEN [call EXCEPT !.pc = "rejected", !.request = NoRequest, !.error = x.error]
    ELSE Returned(call, Normalise(call.op, x.val))

\* the exchange succeeded (2xx): the rest of callOpenAI / callClaude and of
\* the facade call
TransportReply(c, body) ==
    /\ calls[c].pc = "awaiting"
    /\ body \in Bodies(calls[c].request.endpoint)
    /\ calls' = [calls EXCEPT ![c] =
            Settled([calls[c] EXCEPT !.received = Exchange2xx(body)],
                    ExtractReply(calls[c].request.endpoint, body))]
    /\ UNCHANGED <<config, response, phase, parsed, relay, app>>

\* a transport that posts the request a second time after a failed exchange
TransportFailureRetry(c, f) ==
    /\ calls[c].pc = "awaiting"
    /\ calls' = [calls EXCEPT ![c] =
            IF calls[c].sent < 2
            THEN [@ EXCEPT !.sent = 2]
            ELSE [@ EXCEPT !.pc = "rejected", !.request = NoRequest,
                           !.received = ExchangeFailed,
                           !.error = ProviderError(calls[c].request.endpoint, f)]]
    /\ UNCHANGED <<config, response, phase, parsed, relay, app>>

\* the exchange failed (network failure or non-2xx status): axios.post
\* rejects and the catch block rethrows  (apiService.ts 137-139, 173-175)
TransportFailure(c, f) ==
    /\ calls[c].pc = "awaiting"
    /\ calls' = [calls EXCEPT ![c] =
            [@ EXCEPT !.pc = "rejected", !.request = NoRequest,
                      !.received = ExchangeFailed,
                      !.error = ProviderError(calls[c].request.endpoint, f)]]
    /\ UNCHANGED <<config, response, phase, parsed, relay, app>>

Init ==
    /\ config = NoConfig
    /\ calls = [c \in CallIds |-> IdleCall]
    /\ response = JAbsent
    /\ phase = "facade"
    /\ parsed = NoResult
    /\ relay = [r \in RelayIds |-> IdleRelay]
    /\ app = InitialApp

Next ==
    \/ \E cfg \in Configs : SetConfig(cfg)
    \/ \E c \in CallIds, cv \in CVTexts : CheckATSFormat(c, cv)
    \/ \E c \in CallIds, cv \in CVTexts, jd \in JobDescriptions : AdaptCVToJob(c, cv, jd)
    \/ \E c \in CallIds : \E body \in Bodies(calls[c].request.endpoint) : TransportReply(c, body)
    \/ \E c \in CallIds, f \in Failures : TransportFailure(c, f)

Spec == Init /\ [][Next]_vars

\* ------------------------------------------------------------------------
\* The normaliser on its own: every reply of RawReplies, each parser
\* ------------------------------------------------------------------------
InitParse ==
    /\ config = NoConfig
    /\ calls = [c \in CallIds |-> IdleCall]
    /\ response \in RawReplies
    /\ phase = "raw"
    /\ parsed = NoResult
    /\ relay = [r \in RelayIds |-> IdleRelay]
    /\ app = InitialApp

ParseATSResponse ==
    /\ phase = "raw"
    /\ phase' = "ats"
    /\ parsed' = parseATSResponse(response)
    /\ UNCHANGED <<config, calls, response, relay, app>>

ParseAdaptationResponse ==
    /\ phase = "raw"
    /\ phase' = "adaptation"
    /\ parsed' = parseAdaptationResponse(response)
    /\ UNCHANGED <<config, calls, response, relay, app>>

NextParse == ParseATSResponse \/ ParseAdaptationResponse

SpecParse == InitParse /\ [][NextParse]_vars

\* ------------------------------------------------------------------------
\* The renderer on its own: generateDefaultLaTeX on every text of RenderTexts
\* ------------------------------------------------------------------------
MaxText == 2

\* the ten characters the replacement chain names (apiService.ts 232-241),
\* a letter, the letter n and the line feed
RenderAlphabet == {BS, "{", "}", "#", "$", "%", "&", "^", "_", "~", "a", "n", NL}

FourLines == <<"Line1", NL, "Line2", NL, "Line3", NL, "Line4">>
MoneyText == <<"50", "%", SP, "of", SP, "$", "100", SP, "&", SP, "more">>

\* a cvText argument of generateDefaultLaTeX (apiService.ts 229)
RenderTexts ==
    TextsUpTo(RenderAlphabet, MaxText)
    \cup {FourLines, MoneyText, SampleCV, <<"a", NL, "a", NL, "a">>,
          <<"a", BS, "n", "a", BS, "n", "a", BS, "n", "a">>}

InitRender ==
    /\ config = NoConfig
    /\ calls = [c \in CallIds |-> IdleCall]
    /\ response \in {JStr(t) : t \in RenderTexts}
    /\ phase = "text"
    /\ parsed = NoResult
    /\ relay = [r \in RelayIds |-> IdleRelay]
    /\ app = InitialApp

\* generateDefaultLaTeX(cvText)  (apiService.ts 229-273)
GenerateDefaultLaTeX ==
    /\ phase = "text"
    /\ phase' = "latex"
    /\ parsed' = generateDefaultLaTeX(response)
    /\ UNCHANGED <<config, calls, response, relay, app>>

NextRender == GenerateDefaultLaTeX

SpecRender == InitRender /\ [][NextRender]_vars

\* ------------------------------------------------------------------------
\* The relay server  (server index.ts 42-98)
\* ------------------------------------------------------------------------
\* header values as the server sees them: a missing header is undefined; the
\* HTTP parser has removed leading and trailing blanks
ApiKeyHeaders == {JAbsent, JStr(<< >>), JStr(<<"sk-ant-1">>)}
AuthorizationHeaders ==
    {JAbsent, JStr(<< >>), JStr(<<"Bearer">>), JStr(<<"Basic ", "dXNlcg">>),
     JStr(<<"bearer ", "sk-1">>), JStr(<<"Bearer ", "sk-1">>)}
VersionHeaders == {JAbsent, JStr(<<"2023-01-01">>)}
RelayBodies == {"request body"}

\* authHeader.startsWith('Bearer ')  (server index.ts 76)
StartsWithBearer(h) == Len(h.s) >= 1 /\ h.s[1] = "Bearer "

\* res.status(401).json({ error: ... })  (server index.ts 47, 77)
Unauthorized(req, text) ==
    [req EXCEPT !.pc = "answered", !.status = 401,
                !.reply = [type |-> "", error |-> text, text |-> ""]]

\* the request handed to axios.post  (server index.ts 50-60, 80-89)
Forwarding(req, fwd) ==
    [req EXCEPT !.pc = "forwarding", !.forwarded = fwd, !.upstreamSent = 1]

\* an Anthropic route that forwards without looking at the x-api-key header
AnthropicRouteNoCheck(r, apiKey, version, body) ==
    /\ relay[r].pc = "idle"
    /\ relay' = [relay EXCEPT ![r] =
            Forwarding([IdleRelay EXCEPT !.route = "anthropic", !.xApiKey = apiKey,
                                         !.anthropicVersion = version, !.body = body],
                       [endpoint |-> ClaudeEndpoint, xApiKey |-> apiKey,
                        authorization |-> JAbsent,
                        anthropicVersion |-> OrElse(version, JStr(<<"2023-06-01">>)),
                        body |-> body])]
    /\ UNCHANGED <<config, calls, response, phase, parsed, app>>

\* POST /api/anthropic/v1/messages up to the await  (server index.ts 42-60)
AnthropicRoute(r, apiKey, version, body) ==
    /\ relay[r].pc = "idle"
    /\ relay' = [relay EXCEPT ![r] =
            IF ~Truthy(apiKey)
            THEN Unauthorized([IdleRelay EXCEPT !.route = "anthropic", !.xApiKey = apiKey,
                                                !.anthropicVersion = version, !.body = body],
                              "API key is required")
            ELSE Forwarding([IdleRelay EXCEPT !.route = "anthropic", !.xApiKey = apiKey,
                                              !.anthropicVersion = version, !.body = body],
                            [endpoint |-> ClaudeEndpoint, xApiKey |-> apiKey,
                             authorization |-> JAbsent,
                             anthropicVersion |-> OrElse(version, JStr(<<"2023-06-01">>)),
                             body |-> body])]
    /\ UNCHANGED <<config, calls, response, phase, parsed, app>>

\* POST /api/openai/v1/chat/completions up to the await  (server index.ts
\* 72-89)
OpenAIRoute(r, authHeader, body) ==
    /\ relay[r].pc = "idle"
    /\ relay' = [relay EXCEPT ![r] =
            IF ~Truthy(authHeader) \/ ~StartsWithBearer(authHeader)
            THEN Unauthorized([IdleRelay EXCEPT !.route = "openai",
                                                !.authorization = authHeader, !.body = body],
                              "Authorization header with Bearer token is required")
            ELSE Forwarding([IdleRelay EXCEPT !.route = "openai",
                                              !.authorization = authHeader, !.body = body],
                            [endpoint |-> OpenAIEndpoint, xApiKey |-> JAbsent,
                             authorization |-> authHeader, anthropicVersion |-> JAbsent,
                             body |-> body])]
    /\ UNCHANGED <<config, calls, response, phase, parsed, app>>

\* what the upstream provider may answer: a 2xx status with a completion, or
\* an error status with a body that has an error field only, an error field
\* next to others, or no error field
SuccessStatuses == {200, 201}
ErrorStatuses == {401, 500}
SuccessData == {[type |-> "message", error |-> "", text |-> "completion"]}
ErrorData ==
    {[type |-> "", error |-> "Incorrect API key provided", text |-> ""],
     [type |-> "error", error |-> "invalid x-api-key", text |-> ""],
     [type |-> "", error |-> "", text |-> "Bad Gateway"]}
UpstreamResponses ==
    {[kind |-> "response", status |-> st, data |-> d, message |-> ""] :
        st \in SuccessStatuses, d \in SuccessData}
    \cup {[kind |-> "response", status |-> st, data |-> d,
           message |-> "Request failed with status code"] :
        st \in ErrorStatuses, d \in ErrorData}
\* the exchange ended without a response: error.response is undefined
UpstreamLost ==
    {[kind |-> "lost", status |-> 0, data |-> NoData, message |-> "connect ECONNREFUSED"]}

\* res.json(response.data)  (server index.ts 62, 91): the status is the
\* default one of the response object, 200
RelaySuccess(req, up) ==
    [req EXCEPT !.pc = "answered", !.upstream = up, !.status = 200, !.reply = up.data]

\* the catch block  (server index.ts 63-68, 92-97):
\* res.status(error.response?.status || 500)
\*    .json({ error: error.response?.data?.error || error.message })
RelayError(req, up) ==
    [req EXCEPT !.pc = "answered", !.upstream = up,
                !.status = IF up.kind = "response" /\ up.status # 0 THEN up.status ELSE 500,
                !.reply = [type |-> "",
                           error |-> IF up.kind = "response" /\ up.data.error # ""
                                     THEN up.data.error ELSE up.message,
                           text |-> ""]]

\* axios.post resolved (a 2xx status) or rejected with a response (any
\* other status): the rest of the route handler
UpstreamResponds(r, up) ==
    /\ relay[r].pc = "forwarding"
    /\ up \in UpstreamResponses
    /\ relay' = [relay EXCEPT ![r] =
            IF up.status \in SuccessStatuses THEN RelaySuccess(relay[r], up)
            ELSE RelayError(relay[r], up)]
    /\ UNCHANGED <<config, calls, response, phase, parsed, app>>

\* axios.post rejected without a response: the catch block
UpstreamFails(r, up) ==
    /\ relay[r].pc = "forwarding"
    /\ up \in UpstreamLost
    /\ relay' = [relay EXCEPT ![r] = RelayError(relay[r], up)]
    /\ UNCHANGED <<config, calls, response, phase, parsed, app>>

InitRelay ==
    /\ config = NoConfig
    /\ calls = [c \in CallIds |-> IdleCall]
    /\ response = JAbsent
    /\ phase = "relay"
    /\ parsed = NoResult
    /\ relay = [r \in RelayIds |-> IdleRelay]
    /\ app = InitialApp

NextRelay ==
    \/ \E r \in RelayIds, k \in ApiKeyHeaders, v \in VersionHeaders, b \in RelayBodies :
          AnthropicRoute(r, k, v, b)
    \/ \E r \in RelayIds, h \in AuthorizationHeaders, b \in RelayBodies :
          OpenAIRoute(r, h, b)
    \/ \E r \in RelayIds, up \in UpstreamResponses : UpstreamResponds(r, up)
    \/ \E r \in RelayIds, up \in UpstreamLost : UpstreamFails(r, up)

SpecRelay == InitRelay /\ [][NextRelay]_vars

\* ------------------------------------------------------------------------
\* The App component  (App.tsx 8-348)
\* ------------------------------------------------------------------------
\* what the user may type, paste or upload: nothing, blanks only, text
ApiKeys == {"", "key-1"}
Texts == {"", " ", "some text"}

\* !text.trim()  (App.tsx 38, 65, 271)
TrimEmpty(text) == text \in {"", " "}

\* how an awaited apiService promise may reject: err.message
Rejections == {"", "OpenAI API error: Network Error"}

\* the API key input of the configuration panel  (App.tsx 122, 141-146)
ChangeApiKey(k) ==
    /\ app.showConfig
    /\ app' = [app EXCEPT !.apiKey = k]
    /\ UNCHANGED <<config, calls, response, phase, parsed, relay>>

\* the close and save buttons of the configuration panel  (App.tsx 126, 157)
CloseConfig ==
    /\ app.showConfig
    /\ app' = [app EXCEPT !.showConfig = FALSE]
    /\ UNCHANGED <<config, calls, response, phase, parsed, relay>>

\* the Configure API button  (App.tsx 162-166)
OpenConfig ==
    /\ ~app.showConfig
    /\ app' = [app EXCEPT !.showConfig = TRUE]
    /\ UNCHANGED <<config, calls, response, phase, parsed, relay>>

\* the close button of the error message  (App.tsx 168-173)
DismissError ==
    /\ app.error # ""
    /\ app' = [app EXCEPT !.error = ""]
    /\ UNCHANGED <<config, calls, response, phase, parsed, relay>>

\* handleFileUpload: the file input of the upload view; without a file it
\* returns, with one it starts a FileReader  (App.tsx 23-35, 176-186)
HandleFileUpload(hasFile) ==
    /\ app.viewMode = "upload"
    /\ hasFile => app.reads < MaxReads
    /\ app' = [app EXCEPT !.reads = IF hasFile THEN @ + 1 ELSE @]
    /\ UNCHANGED <<config, calls, response, phase, parsed, relay>>

\* reader.onload  (App.tsx 28-33)
ReaderOnload(text) ==
    /\ app.reads > 0
    /\ app' = [app EXCEPT !.reads = @ - 1, !.cvText = text,
                          !.viewMode = "ats-check", !.error = ""]
    /\ UNCHANGED <<config, calls, response, phase, parsed, relay>>

\* the CV text area of the upload view  (App.tsx 176, 188-194)
ChangeCvText(text) ==
    /\ app.viewMode = "upload"
    /\ app' = [app EXCEPT !.cvText = text]
    /\ UNCHANGED <<config, calls, response, phase, parsed, relay>>

\* the job description text area of the adapt view  (App.tsx 250, 256-262)
ChangeJobDescription(text) ==
    /\ app.viewMode = "adapt"
    /\ app' = [app EXCEPT !.jobDescription = text]
    /\ UNCHANGED <<config, calls, response, phase, parsed, relay>>

\* the Check ATS Format button is rendered  (App.tsx 176, 195)
CheckATSShown == app.viewMode = "upload" /\ app.cvText # ""

\* the Adapt CV button is rendered and enabled  (App.tsx 250, 268-272)
AdaptCVEnabled ==
    app.viewMode = "adapt" /\ ~app.loading /\ ~TrimEmpty(app.jobDescription)

\* apiService.setConfig(apiConfig)  (App.tsx 51, 78)
AppConfig == [provider |-> "openai", apiKey |-> app.apiKey, model |-> ""]

\* handleCheckATS up to the await; r is the promise it waits for
\* (App.tsx 37-54)
HandleCheckATS(r) ==
    /\ CheckATSShown
    /\ IF TrimEmpty(app.cvText)
       THEN /\ app' = [app EXCEPT !.error = "Please upload a CV first"]
            /\ config' = config
       ELSE IF app.apiKey = ""
       THEN /\ app' = [app EXCEPT !.error = "Please configure your API key",
                                  !.showConfig = TRUE]
            /\ config' = config
       ELSE /\ app.requests[r] = "none"
            /\ app' = [app EXCEPT !.loading = TRUE, !.error = "",
                                  !.requests[r] = "check"]
            /\ config' = AppConfig
    /\ UNCHANGED <<calls, response, phase, parsed, relay>>

\* handleCheckATS after the await: the promise resolved  (App.tsx 55-56,
\* 59-61)
CheckATSResolves(r) ==
    /\ app.requests[r] = "check"
    /\ app' = [app EXCEPT !.atsResult = TRUE, !.viewMode = "adapt",
                          !.loading = FALSE, !.requests[r] = "none"]
    /\ UNCHANGED <<config, calls, response, phase, parsed, relay>>

\* handleCheckATS after the await: the promise rejected  (App.tsx 57-61)
CheckATSRejects(r, message) ==
    /\ app.requests[r] = "check"
    /\ app' = [app EXCEPT !.error = IF message # "" THEN message
                                    ELSE "Failed to check ATS format",
                          !.loading = FALSE, !.requests[r] = "none"]
    /\ UNCHANGED <<config, calls, response, phase, parsed, relay>>

\* handleAdaptCV up to the await  (App.tsx 64-81)
HandleAdaptCV(r) ==
    /\ AdaptCVEnabled
    /\ IF TrimEmpty(app.cvText) \/ TrimEmpty(app.jobDescription)
       THEN /\ app' = [app EXCEPT !.error = "Please provide both CV and job description"]
            /\ config' = config
       ELSE IF app.apiKey = ""
       THEN /\ app' = [app EXCEPT !.error = "Please configure your API key",
                                  !.showConfig = TRUE]
            /\ config' = config
       ELSE /\ app.requests[r] = "none"
            /\ app' = [app EXCEPT !.loading = TRUE, !.error = "",
                                  !.requests[r] = "adapt"]
            /\ config' = AppConfig
    /\ UNCHANGED <<calls, response, phase, parsed, relay>>

\* handleAdaptCV after the await: the promise resolved  (App.tsx 82-83,
\* 86-88)
AdaptCVResolves(r) ==
    /\ app.requests[r] = "adapt"
    /\ app' = [app EXCEPT !.adaptationResult = TRUE, !.viewMode = "results",
                          !.loading = FALSE, !.requests[r] = "none"]
    /\ UNCHANGED <<config, calls, response, phase, parsed, relay>>

\* handleAdaptCV after the await: the promise rejected  (App.tsx 84-88)
AdaptCVRejects(r, message) ==
    /\ app.requests[r] = "adapt"
    /\ app' = [app EXCEPT !.error = IF message # "" THEN message
                                    ELSE "Failed to adapt CV",
                          !.loading = FALSE, !.requests[r] = "none"]
    /\ UNCHANGED <<config, calls, response, phase, parsed, relay>>

\* the buttons that only change the view: Back and Continue of the ATS
\* results (App.tsx 204, 239-244), Back of the adapt view (265), Back and
\* Start Over of the results (280, 328-333)
Navigate(to) ==
    /\ \/ app.viewMode = "ats-check" /\ app.atsResult /\ to \in {"upload", "adapt"}
       \/ app.viewMode = "adapt" /\ to = "ats-check"
       \/ app.viewMode = "results" /\ app.adaptationResult /\ to \in {"adapt", "upload"}
    /\ app' = [app EXCEPT !.viewMode = to]
    /\ UNCHANGED <<config, calls, response, phase, parsed, relay>>

\* downloadPDF  (App.tsx 105-113, 280, 288)
DownloadPDF ==
    /\ app.viewMode = "results" /\ app.adaptationResult
    /\ app' = [app EXCEPT !.error =
            "PDF compilation requires backend service. LaTeX file downloaded instead."]
    /\ UNCHANGED <<config, calls, response, phase, parsed, relay>>

InitApp ==
    /\ config = NoConfig
    /\ calls = [c \in CallIds |-> IdleCall]
    /\ response = JAbsent
    /\ phase = "app"
    /\ parsed = NoResult
    /\ relay = [r \in RelayIds |-> IdleRelay]
    /\ app = InitialApp

NextApp ==
    \/ \E k \in ApiKeys : ChangeApiKey(k)
    \/ CloseConfig
    \/ OpenConfig
    \/ DismissError
    \/ \E hasFile \in BOOLEAN : HandleFileUpload(hasFile)
    \/ \E text \in Texts : ReaderOnload(text)
    \/ \E text \in Texts : ChangeCvText(text)
    \/ \E text \in Texts : ChangeJobDescription(text)
    \/ \E r \in RequestIds : HandleCheckATS(r)
    \/ \E r \in RequestIds : CheckATSResolves(r)
    \/ \E r \in RequestIds, m \in Rejections : CheckATSRejects(r, m)
    \/ \E r \in RequestIds : HandleAdaptCV(r)
    \/ \E r \in RequestIds : AdaptCVResolves(r)
    \/ \E r \in RequestIds, m \in Rejections : AdaptCVRejects(r, m)
    \/ \E to \in {"upload", "ats-check", "adapt", "results"} : Navigate(to)
    \/ DownloadPDF

SpecApp == InitApp /\ [][NextApp]_vars

\* ------------------------------------------------------------------------
\* Properties
\* ------------------------------------------------------------------------
IsText(v) == v.t = "string"

\* the reply has a substring that starts with "{" and ends with a later "}"
HasBraced(t) == \E i, j \in 1..Len(t) : i < j /\ t[i] = "{" /\ t[j] = "}"

\* the reply decodes: it is a text whose first-"{"-to-last-"}" substring is
\* JSON; Payload is the decoded object
Decodes(v) == IsText(v) /\ HasBraced(v.s) /\ JSONparse(jsonMatch(v.s).s).ok
Payload(v) == JSONparse(jsonMatch(v.s).s).val

Normalised == phase \in {"ats", "adaptation"}
ResultFields == IF phase = "ats" THEN ATSFields ELSE AdaptFields

\* C1: while no configuration has been set, a step that starts
\* checkATSFormat or adaptCVToJob leaves the call rejected with the
\* configuration error, with no request sent by the call and no request put
\* in flight by the step.
C1_ConfigErrorBeforeRequest ==
    [][\A c \in CallIds :
         (config = NoConfig /\ Free(c) /\ calls'[c] # calls[c]) =>
            /\ calls'[c].pc = "rejected"
            /\ calls'[c].error = [message |-> <<"API configuration not set">>]
            /\ calls'[c].sent = 0
            /\ calls'[c].request = NoRequest
            /\ \A d \in CallIds : calls'[d].pc = "awaiting" => calls[d].pc = "awaiting"]_vars

C1_Witness ==
    \E c \in CallIds :
        /\ config = NoConfig
        /\ calls[c].pc = "rejected"
        /\ calls[c].op \in {"checkATSFormat", "adaptCVToJob"}
        /\ calls[c].error = ConfigError
        /\ calls[c].sent = 0

\* C2: for every reply value (any text, text with unbalanced braces, JSON
\* with fields of unexpected types, no string at all) each parser returns
\* a record with its four fields and throws nothing.
C2_ParsersTotal ==
    Normalised => /\ ~parsed.threw
                  /\ DOMAIN parsed.value = ResultFields

\* the try block threw inside generateDefaultLaTeX (adaptedCV is a number)
\* and the parser still returned a record
C2_Witness ==
    /\ phase = "adaptation"
    /\ Decodes(response)
    /\ Payload(response)["adaptedCV"] = JNum(5)
    /\ Payload(response)["latexCode"] = JAbsent
    /\ ~parsed.threw

\* C3: for a reply text without a brace-delimited substring, or whose
\* first-"{"-to-last-"}" substring is no JSON, parseATSResponse returns
\* exactly the fixed fallback record.
C3_ATSFallbackOnFailure ==
    (phase = "ats" /\ IsText(response) /\ ~Decodes(response)) =>
        parsed.value =
            [isATSFormat |-> JBool(FALSE),
             score       |-> JNum(0),
             issues      |-> JList(<< <<"Failed to parse API response">> >>),
             suggestions |-> JList(<< <<"Please check the API response format">> >>)]

\* a braced substring that is no JSON
C3_Witness ==
    /\ phase = "ats"
    /\ IsText(response)
    /\ HasBraced(response.s)
    /\ ~JSONparse(jsonMatch(response.s).s).ok
    /\ parsed.value = ATSFallback

\* the replies of C4: brace-free prose around the JSON text of a payload
\* that carries all four assessment fields with their types
WellFormedReplies ==
    {[text |-> b \o ObjectText(ATSOrder, p) \o a, payload |-> p] :
        b \in {x \in ProseBefore : BraceFree(x)},
        a \in {x \in ProseAfter : BraceFree(x)},
        p \in FullATSPayloads}

\* C4: for brace-free prose before and after one JSON object that carries
\* all four assessment fields with their types, parseATSResponse returns
\* the values of the payload, lists in payload order, not the fallback.
C4_ATSPayloadReturned ==
    phase = "ats" =>
        \A w \in WellFormedReplies :
            response = JStr(w.text) =>
                /\ parsed.value = [f \in ATSFields |-> w.payload[f]]
                /\ parsed.value # ATSFallback

\* the scenario reply, in prose on both sides
C4_Witness ==
    /\ phase = "ats"
    /\ response = JStr(<<"Sure!", SP>> \o ObjectText(ATSOrder,
                    ATSPayload(JBool(TRUE), JNum(87), JList(<< <<"a">>, <<"b", "}">> >>),
                               JList(<<BulletPoints>>))) \o <<SP, "ok">>)
    /\ parsed.value["score"] = JNum(87)
    /\ parsed.value["suggestions"] = JList(<<BulletPoints>>)

\* C5: the score of every assessment returned by parseATSResponse lies in
\* 0..100 (a payload score below 0 comes back as 0, one above 100 as 100).
C5_ScoreClamped ==
    (phase = "ats" /\ parsed.value["score"].t = "number") =>
        /\ parsed.value["score"].n >= 0
        /\ parsed.value["score"].n <= 100
        /\ (Decodes(response) /\ Payload(response)["score"].t = "number") =>
              parsed.value["score"].n =
                  (IF Payload(response)["score"].n < 0 THEN 0
                   ELSE IF Payload(response)["score"].n > 100 THEN 100
                   ELSE Payload(response)["score"].n)

\* the type-appropriate default of each result field
DefaultOf(f) ==
    CASE f = "isATSFormat" -> JBool(FALSE)
      [] f = "score"       -> JNum(0)
      [] f \in {"adaptedCV", "latexCode"} -> JStr(<< >>)
      [] OTHER             -> JList(<< >>)
DeclaredType(f) == DefaultOf(f).t
ListFields == {"issues", "suggestions", "changes", "highlightedSkills"}

\* C6: when the reply decodes to an object in which a field is absent or
\* null, the result carries the default of that field (false, 0, the empty
\* list, the empty string); no list field of a result is ever absent.
C6_AbsentFieldDefault ==
    Normalised =>
        /\ \A f \in ResultFields \cap ListFields : ~Nullish(parsed.value[f])
        /\ Decodes(response) =>
              \A f \in ResultFields \ {"latexCode"} :
                  Nullish(Payload(response)[f]) => parsed.value[f] = DefaultOf(f)

\* C7: when the reply decodes to an object, every field of the result has
\* its declared type: a field of the wrong shape is replaced by its
\* default and the well-shaped fields are kept.
C7_WrongShapeDefault ==
    (Normalised /\ Decodes(response)) =>
        \A f \in ResultFields :
            /\ parsed.value[f].t = DeclaredType(f)
            /\ (f # "latexCode" /\ Payload(response)[f].t = DeclaredType(f))
                  => parsed.value[f] = Payload(response)[f]

CompleteDocument(v) ==
    /\ v.t = "string"
    /\ Len(v.s) >= 2 + Len(DocEnd)
    /\ SubSeq(v.s, 1, 2) = <<BS, "documentclass">>
    /\ SubSeq(v.s, Len(v.s) - Len(DocEnd) + 1, Len(v.s)) = DocEnd

\* C9: the latexCode of every result of parseAdaptationResponse is a
\* non-empty string that is a complete document, also when the provider
\* supplied no document, an empty one or one that is no string.
C9_DocumentAlwaysComplete ==
    phase = "adaptation" => CompleteDocument(parsed.value["latexCode"])

\* C10 as stated: generateDefaultLaTeX is called only when the decoded
\* payload has no latexCode, and a latexCode the payload carries is
\* returned as it is.
C10_RenderOnlyWhenAbsent ==
    (phase = "adaptation" /\ Decodes(response)) =>
        LET doc == Payload(response)["latexCode"] IN
        /\ parsed.renders # << >> => Nullish(doc)
        /\ ~Nullish(doc) => parsed.value["latexCode"] = doc

FalsyValues == {JAbsent, JNull, JStr(<< >>), JNum(0), JBool(FALSE)}

\* C10 amended: generateDefaultLaTeX is called only when the latexCode of
\* the decoded payload is absent or falsy (null, "", 0, false); a truthy
\* latexCode is returned as it is, symbol for symbol and unescaped,
\* whatever adaptedCV is, and nothing is rendered.
C10_RenderOnlyWhenFalsy ==
    (phase = "adaptation" /\ Decodes(response)) =>
        LET doc == Payload(response)["latexCode"] IN
        /\ parsed.renders # << >> => doc \in FalsyValues
        /\ doc \notin FalsyValues =>
              /\ parsed.value["latexCode"] = doc
              /\ parsed.renders = << >>

\* a provider document with special characters passes through although
\* adaptedCV is no string
C10_Witness ==
    /\ phase = "adaptation"
    /\ Decodes(response)
    /\ Payload(response)["latexCode"] = JStr(SampleDoc)
    /\ Payload(response)["adaptedCV"] = JNum(5)
    /\ parsed.value["latexCode"] = JStr(SampleDoc)
    /\ parsed.renders = << >>

\* ------------------------------------------------------------------------
\* The rendered document
\* ------------------------------------------------------------------------
Rendered == phase = "latex" /\ parsed.ok

\* the first position of symbol sym in document doc
IndexOf(doc, sym) == CHOOSE i \in 1..Len(doc) : doc[i] = sym /\ \A j \in 1..(i - 1) : doc[j] # sym

\* what stands between the \section{Professional Summary} line and the
\* blank line before \section{Experience}
SummarySection(doc) ==
    SubSeq(doc, IndexOf(doc, "Professional Summary") + 3, IndexOf(doc, "Experience") - 6)

\* what stands between the \section{Experience} line and the blank line
\* before \section{Education}
ExperienceSection(doc) ==
    SubSeq(doc, IndexOf(doc, "Experience") + 3, IndexOf(doc, "Education") - 6)

\* the escape sequence of one character
EscapeOf(ch) ==
    CASE ch = BS  -> <<BS, "textbackslash", "{", "}">>
      [] ch = "{" -> <<BS, "{">>
      [] ch = "}" -> <<BS, "}">>
      [] ch = "#" -> <<BS, "#">>
      [] ch = "$" -> <<BS, "$">>
      [] ch = "%" -> <<BS, "%">>
      [] ch = "&" -> <<BS, "&">>
      [] ch = "^" -> <<BS, "textasciicircum", "{", "}">>
      [] ch = "_" -> <<BS, "_">>
      [] ch = "~" -> <<BS, "textasciitilde", "{", "}">>
      [] OTHER    -> <<ch>>

RECURSIVE SinglePass(_)
\* one left-to-right pass: every character replaced by its escape sequence
SinglePass(text) ==
    IF text = << >> THEN << >>
    ELSE EscapeOf(Head(text)) \o SinglePass(Tail(text))

\* C11: the escaped text in the document (the full-text section) equals the
\* concatenation, character by character in order, of the escape sequences
\* of the input's characters; nothing a substitution emitted is escaped
\* again.
C11_SinglePassEscaping ==
    Rendered => ExperienceSection(parsed.val.s) = SinglePass(response.s)

SpecialChars == {BS, "{", "}", "#", "$", "%", "&", "^", "_", "~"}

RECURSIVE EscapedFrom(_, _)
\* text t from position i on is made of ordinary characters and whole escape
\* sequences only
EscapedFrom(t, i) ==
    IF i > Len(t) THEN TRUE
    ELSE IF t[i] \notin SpecialChars THEN EscapedFrom(t, i + 1)
    ELSE /\ t[i] = BS
         /\ i < Len(t)
         /\ \E ch \in SpecialChars :
               /\ i + Len(EscapeOf(ch)) - 1 <= Len(t)
               /\ SubSeq(t, i, i + Len(EscapeOf(ch)) - 1) = EscapeOf(ch)
               /\ EscapedFrom(t, i + Len(EscapeOf(ch)))

\* C12: the escaped text in the document has no unescaped special
\* character: each # $ % & _ directly follows a backslash, ^ and ~ do not
\* occur, and every backslash and brace belongs to one of the ten escape
\* sequences.
C12_NoUnescapedSpecial ==
    Rendered =>
        /\ \A i \in 1..Len(ExperienceSection(parsed.val.s)) :
              ExperienceSection(parsed.val.s)[i] \in {"#", "$", "%", "&", "_"}
                 => (i > 1 /\ ExperienceSection(parsed.val.s)[i - 1] = BS)
        /\ \A i \in 1..Len(ExperienceSection(parsed.val.s)) :
              ExperienceSection(parsed.val.s)[i] \notin {"^", "~"}
        /\ EscapedFrom(ExperienceSection(parsed.val.s), 1)

\* the lines of a text: the pieces between its line feeds
RECURSIVE Lines(_, _)
Lines(text, cur) ==
    IF text = << >> THEN <<cur>>
    ELSE IF Head(text) = NL THEN <<cur>> \o Lines(Tail(text), << >>)
    ELSE Lines(Tail(text), Append(cur, Head(text)))

\* piece occurs in text as a run of consecutive symbols
Occurs(piece, text) ==
    \E i \in 1..(Len(text) - Len(piece) + 1) :
        SubSeq(text, i, i + Len(piece) - 1) = piece

\* C13: for a text of n lines the full-text section holds the whole escaped
\* text, and the summary section holds the escaped first min(n,3) lines and
\* no more lines than those; a fourth line is in the full-text section and
\* not in the summary section.
C13_SummaryFirstThreeLines ==
    Rendered =>
        /\ ExperienceSection(parsed.val.s) = escapedText(response.s)
        /\ Len(Lines(SummarySection(parsed.val.s), << >>))
              <= Min({Len(Lines(response.s, << >>)), 3})
        /\ \A k \in 1..Min({Len(Lines(response.s, << >>)), 3}) :
              Occurs(escapedText(Lines(response.s, << >>)[k]), SummarySection(parsed.val.s))
        /\ response.s = FourLines =>
              /\ Occurs(<<"Line4">>, ExperienceSection(parsed.val.s))
              /\ ~Occurs(<<"Line4">>, SummarySection(parsed.val.s))

\* ------------------------------------------------------------------------
\* The facade call and its exchange
\* ------------------------------------------------------------------------
Done(c) == calls[c].pc \in {"resolved", "rejected"}

FieldsOf(op) == IF op = "checkATSFormat" THEN ATSFields ELSE AdaptFields

\* the call rejected with the error of a catch block of the transport
RejectedByProvider(c) ==
    /\ calls[c].pc = "rejected"
    /\ calls[c].result = NoResult
    /\ Len(calls[c].error.message) = 2
    /\ calls[c].error.message[1] \in {"OpenAI API error: ", "Claude API error: "}

\* the call resolved with a record of its operation's fields
ResolvedWithRecord(c) ==
    /\ calls[c].pc = "resolved"
    /\ calls[c].error = NoError
    /\ DOMAIN calls[c].result = FieldsOf(calls[c].op)

\* C14 as stated: a call whose exchange failed is rejected with an error and
\* holds no result; a call whose exchange succeeded (2xx) is resolved with a
\* result record, whatever the response holds.
C14_OutcomeByExchange ==
    \A c \in CallIds :
        /\ calls[c].received.kind = "error" =>
              /\ calls[c].pc = "rejected"
              /\ calls[c].error # NoError
              /\ calls[c].result = NoResult
        /\ calls[c].received.kind = "2xx" => ResolvedWithRecord(c)

\* C14: a call whose exchange failed is rejected with an error and holds no
\* result; a call whose 2xx response has the first choice's message (the
\* first content block) is resolved with a result record, whatever stands at
\* the reply field, a missing reply field included; a call whose 2xx
\* response lacks those levels is rejected with the provider error.
C14_OutcomeByReplyPath ==
    \A c \in CallIds :
        /\ calls[c].received.kind = "error" =>
              /\ calls[c].pc = "rejected"
              /\ calls[c].error # NoError
              /\ calls[c].result = NoResult
        /\ (calls[c].received.kind = "2xx" /\ calls[c].received.path = "ok")
              => ResolvedWithRecord(c)
        /\ (calls[c].received.kind = "2xx" /\ calls[c].received.path # "ok")
              => RejectedByProvider(c)

C14_Witness ==
    \E c, d \in CallIds :
        /\ calls[c].received.kind = "error" /\ calls[c].pc = "rejected"
        /\ calls[d].received = [kind |-> "2xx", path |-> "ok", leaf |-> JStr(<<"not json at all">>)]
        /\ calls[d].pc = "resolved"

\* C15: a call whose 2xx response lacks the reply field at any level (the
\* last one, message.content or the first block's text, included) is
\* rejected with a provider error and holds no result.
C15_MissingReplyFieldRejects ==
    \A c \in CallIds :
        (calls[c].received.kind = "2xx"
            /\ (calls[c].received.path # "ok" \/ calls[c].received.leaf = JAbsent))
        => RejectedByProvider(c)

\* C16: a call that passed the configuration check has posted exactly one
\* request, while it waits and after it settled, and a step that ends its
\* wait settles it without posting again.
C16_ExactlyOneRequest ==
    /\ [](\A c \in CallIds :
            (calls[c].pc = "awaiting" \/ (Done(c) /\ calls[c].error # ConfigError))
               => calls[c].sent = 1)
    /\ [][\A c \in CallIds :
            (calls[c].pc = "awaiting" /\ calls'[c] # calls[c])
               => (calls'[c].pc \in {"resolved", "rejected"} /\ calls'[c].sent = calls[c].sent)]_vars

C16_Witness ==
    \E c, d \in CallIds :
        /\ calls[c].received.kind = "error" /\ calls[c].pc = "rejected" /\ calls[c].sent = 1
        /\ calls[d].received.kind = "2xx" /\ calls[d].pc = "resolved" /\ calls[d].sent = 1

\* the step starts a call in slot c that passes the configuration check
Starts(c) == calls[c].pc # "awaiting" /\ calls'[c].pc = "awaiting"

\* C17: the request of a starting call takes its endpoint, its credential
\* header and its model from the configuration current at that step; while
\* the call waits, a step that replaces the configuration leaves the call as
\* it is and no step changes its request; the call settles in the variant
\* its request was posted by, whatever the configuration is by then.
C17_ConfigSnapshot ==
    [][\A c \in CallIds :
         /\ Starts(c) =>
               /\ config \in Configs
               /\ calls'[c].request.endpoint =
                     (IF config.provider = "openai"
                      THEN "https://api.openai.com/v1/chat/completions"
                      ELSE "https://api.anthropic.com/v1/messages")
               /\ IF config.provider = "openai"
                  THEN calls'[c].request.authorization = <<"Bearer ", config.apiKey>>
                  ELSE calls'[c].request.xApiKey = config.apiKey
               /\ calls'[c].request.model =
                     (IF config.model # "" THEN config.model
                      ELSE IF config.provider = "openai" THEN "gpt-4-turbo-preview"
                      ELSE "claude-3-5-sonnet-20241022")
         /\ (calls[c].pc = "awaiting" /\ config' # config) => calls'[c] = calls[c]
         /\ (calls[c].pc = "awaiting" /\ calls'[c].pc = "awaiting")
               => calls'[c].request = calls[c].request
         /\ (calls[c].pc = "awaiting" /\ calls'[c].pc = "rejected")
               => calls'[c].error.message[1] =
                     (IF calls[c].request.endpoint = "https://api.openai.com/v1/chat/completions"
                      THEN "OpenAI API error: " ELSE "Claude API error: ")]_vars

\* a call waits with the request of one provider while the configuration
\* names the other provider and another credential
C17_Witness ==
    \E c \in CallIds :
        /\ calls[c].pc = "awaiting"
        /\ calls[c].request.endpoint = ClaudeEndpoint
        /\ calls[c].request.xApiKey = "key-2"
        /\ config.provider = "openai"
        /\ config.apiKey = "key-1"

\* C18: a starting call posts one request, to the variant of the configured
\* provider: for openai the chat-completions endpoint with the bearer header
\* of the credential and no x-api-key or anthropic-version header, for
\* claude the messages endpoint with the credential as x-api-key, an
\* anthropic-version header and no bearer header; every request in flight
\* has one of these two shapes.
C18_OneVariantPerCall ==
    /\ [][\A c \in CallIds :
            Starts(c) =>
               /\ calls'[c].sent = 1
               /\ config.provider = "openai" =>
                     /\ calls'[c].request.endpoint = "https://api.openai.com/v1/chat/completions"
                     /\ calls'[c].request.authorization = <<"Bearer ", config.apiKey>>
                     /\ calls'[c].request.xApiKey = ""
                     /\ calls'[c].request.anthropicVersion = ""
               /\ config.provider = "claude" =>
                     /\ calls'[c].request.endpoint = "https://api.anthropic.com/v1/messages"
                     /\ calls'[c].request.xApiKey = config.apiKey
                     /\ calls'[c].request.anthropicVersion = "2023-06-01"
                     /\ calls'[c].request.authorization = << >>]_vars
    /\ [](\A c \in CallIds :
            calls[c].pc = "awaiting" =>
               \/ /\ calls[c].request.endpoint = "https://api.openai.com/v1/chat/completions"
                  /\ Len(calls[c].request.authorization) = 2
                  /\ calls[c].request.xApiKey = ""
               \/ /\ calls[c].request.endpoint = "https://api.anthropic.com/v1/messages"
                  /\ calls[c].request.authorization = << >>
                  /\ calls[c].request.xApiKey # "")

C18_Witness ==
    \E c, d \in CallIds :
        /\ calls[c].pc = "awaiting" /\ calls[c].request.endpoint = OpenAIEndpoint
        /\ calls[c].request.authorization = <<"Bearer ", "key-1">>
        /\ calls[d].pc = "awaiting" /\ calls[d].request.endpoint = ClaudeEndpoint
        /\ calls[d].request.xApiKey = "key-2"

\* ------------------------------------------------------------------------
\* The relay
\* ------------------------------------------------------------------------
Forwarded(r) == relay[r].upstreamSent > 0

\* C19: a forwarded request that upstream answered is answered with the
\* upstream status and the upstream body, for success and error statuses
\* alike; one whose upstream exchange ended without a response is answered
\* 500 with the error's message.
C19_UpstreamVerbatim ==
    \A r \in RelayIds :
        (Forwarded(r) /\ relay[r].pc = "answered") =>
            /\ relay[r].upstream.kind = "response" =>
                  /\ relay[r].status = relay[r].upstream.status
                  /\ relay[r].reply = relay[r].upstream.data
            /\ relay[r].upstream.kind = "lost" =>
                  /\ relay[r].status = 500
                  /\ relay[r].reply = [type |-> "", error |-> relay[r].upstream.message, text |-> ""]

\* the header has the form Bearer <token>
CarriesBearerToken(h) == h.t = "string" /\ Len(h.s) = 2 /\ h.s[1] = "Bearer " /\ h.s[2] # ""

\* the request came in without the credential header of its route
LacksCredential(r) ==
    \/ relay[r].route = "anthropic" /\ relay[r].xApiKey \in {JAbsent, JStr(<< >>)}
    \/ relay[r].route = "openai" /\ ~CarriesBearerToken(relay[r].authorization)

\* C20: a request that came in without the credential header of its route
\* is answered 401 and no request goes upstream for it, then or later;
\* a forwarded request goes to the endpoint of its route and carries the
\* caller's credential header as it came in.
C20_ValidatedBeforeForwarding ==
    /\ [](\A r \in RelayIds :
            /\ LacksCredential(r) =>
                  /\ relay[r].pc = "answered"
                  /\ relay[r].status = 401
                  /\ relay[r].upstreamSent = 0
                  /\ relay[r].forwarded = NoForward
            /\ (Forwarded(r) /\ relay[r].route = "anthropic") =>
                  /\ relay[r].forwarded.endpoint = "https://api.anthropic.com/v1/messages"
                  /\ relay[r].forwarded.xApiKey = relay[r].xApiKey
            /\ (Forwarded(r) /\ relay[r].route = "openai") =>
                  /\ relay[r].forwarded.endpoint = "https://api.openai.com/v1/chat/completions"
                  /\ relay[r].forwarded.authorization = relay[r].authorization)
    /\ [][\A r \in RelayIds :
            relay[r].pc # "idle" =>
               /\ relay'[r].upstreamSent = relay[r].upstreamSent
               /\ relay'[r].forwarded = relay[r].forwarded]_vars

C20_Witness ==
    \E r, q \in RelayIds :
        /\ relay[r].route = "openai" /\ relay[r].authorization = JStr(<<"Basic ", "dXNlcg">>)
        /\ relay[r].pc = "answered" /\ relay[r].status = 401
        /\ relay[q].route = "anthropic" /\ relay[q].pc = "answered" /\ Forwarded(q)
        /\ relay[q].forwarded.xApiKey = JStr(<<"sk-ant-1">>)

\* ------------------------------------------------------------------------
\* The App
\* ------------------------------------------------------------------------
\* the step is the completion of a file read
UploadCompletes == app'.reads < app.reads

\* the step puts non-empty text into the CV text area
PastesText ==
    app'.reads = app.reads /\ app'.cvText # app.cvText /\ app'.cvText # ""

\* C21: in the state a completed file upload or a paste of non-empty text
\* leads to, the Check ATS Format button is on screen, so that the user can
\* trigger handleCheckATS.
C21_CheckATSAvailableAfterCV ==
    [][(UploadCompletes \/ PastesText) =>
          (app'.viewMode = "upload" /\ app'.cvText # "")]_vars

RequestInFlight == \E r \in RequestIds : app.requests[r] # "none"

\* C22: the loading flag is true in every state in which a request started
\* by handleCheckATS or handleAdaptCV is in flight, and false in every state
\* in which none is.
C22_LoadingWhileInFlight ==
    app.loading = RequestInFlight

====
